---- MODULE Spec2Model ----
(***************************************************************************)
(* Songbook: the local data layer and the playlist/library state of the    *)
(* sheet-music reader.                                                      *)
(*                                                                          *)
(*   App            src/unnamed/part_000  lines   1..264                    *)
(*   PlaylistView   src/unnamed/part_000  lines 266..405                    *)
(*   db             src/unnamed/part_001                                    *)
(*   types          src/unnamed/part_002                                    *)
(*                                                                          *)
(* Handlers are async functions: the part up to the first await runs in    *)
(* the event that calls the handler and reads the state of the render it   *)
(* was created in; the part after the await runs when the store request    *)
(* settles.  A handler call is therefore two steps of the model, the call  *)
(* and the completion, with the closure's values carried in between.       *)
(* Read-write transactions on one object store run in the order they were  *)
(* created, so the pending writes of the 'playlists' store are a FIFO.     *)
(* Strings that the code inspects (names, MIME types) are sequences of     *)
(* one-character strings.                                                   *)
(***************************************************************************)
EXTENDS Integers, Sequences, FiniteSets, TLC

VARIABLES
    musicStore,       \* object store 'sheetMusic': set of SheetMusic, keyed by id
    plStore,          \* object store 'playlists': set of Playlist, keyed by id
    allMusic,         \* App state allMusic: sequence of SheetMusic
    playlists,        \* App state playlists: sequence of Playlist
    currentFile,      \* App state currentFile: SheetMusic or NoFile (null)
    view,             \* App state view: "playlists" | "viewer"
    isModalOpen,      \* App state isModalOpen
    isLoading,        \* App state isLoading
    loadingMessage,   \* App state loadingMessage
    newPlaylistName,  \* PlaylistView state newPlaylistName
    loadPending,      \* loadData of the mount effect has not settled yet
    plQueue,          \* handler calls awaiting their write to 'playlists', oldest first
    imp,              \* the handleFileSelect call in flight (phase "idle" when none)
    rnd,              \* number of Math.random() draws made so far
    calls,            \* number of user events handled so far
    alertMsg,         \* alert() raised by the latest step ("none" when none)
    event,            \* what the latest step was
    hydrated,         \* value of the hydratedPlaylists memo (SpecHydrate only)
    dbPromise,        \* db module variable dbPromise: "unset" | "opened" | "rejected"
    dbOpens,          \* openDB calls made since the page was loaded
    dbVersion,        \* version of database 'sheet-music-db' (0: it does not exist)
    dbStores,         \* names of the object stores the database has
    scale,            \* Viewer: zoom scale, in quarters (4 is 1.0)
    isAutoScrolling,  \* Viewer: auto-scroll is on
    scrollSpeed,      \* Viewer: auto-scroll speed
    lastTap           \* Viewer: lastTap.current, the time of the last touch end (ms)

vars == <<musicStore, plStore, allMusic, playlists, currentFile, view, isModalOpen,
          isLoading, loadingMessage, newPlaylistName, loadPending, plQueue, imp, rnd,
          calls, alertMsg, event, hydrated, dbPromise, dbOpens, dbVersion, dbStores,
          scale, isAutoScrolling, scrollSpeed, lastTap>>

dbVars == <<dbPromise, dbOpens, dbVersion, dbStores>>

viewerVars == <<scale, isAutoScrolling, scrollSpeed, lastTap>>

(***************************************************************************)
(* Bounds of the model.                                                     *)
(***************************************************************************)
\* Date.now() returns a value in 1..MaxClock; it is a wall clock, not monotonic.
MaxClock == 2
\* user events in one behaviour: calls of the handlers that reach a store
\* (create, delete, add, remove, file selection) and page reloads; navigation
\* (typing a name, the selection prompt, opening and closing the viewer) is not
\* counted
MaxCalls == 2
\* items of the library that SpecHydrate starts from
MaxLibrary == 2
\* item ids a playlist of that library lists
MaxMembers == 2

Clock == 1..MaxClock

(***************************************************************************)
(* Text.                                                                    *)
(***************************************************************************)
IsSpace(c) == c = " "

RECURSIVE TrimStart(_)
TrimStart(s) ==
    IF s = <<>> THEN s
    ELSE IF IsSpace(Head(s)) THEN TrimStart(Tail(s)) ELSE s

RECURSIVE TrimEnd(_)
TrimEnd(s) ==
    IF s = <<>> THEN s
    ELSE IF IsSpace(s[Len(s)]) THEN TrimEnd(SubSeq(s, 1, Len(s) - 1)) ELSE s

\* faulty variant of Trim: trailing blanks are kept
TrimLeadingOnly(s) == TrimStart(s)

\* String.prototype.trim
Trim(s) == TrimEnd(TrimStart(s))

\* String.prototype.toLowerCase, on one character
LowerChar(c) ==
    CASE c = "P" -> "p"
      [] c = "D" -> "d"
      [] c = "F" -> "f"
      [] OTHER -> c

ToLowerCase(s) == [i \in 1..Len(s) |-> LowerChar(s[i])]

\* String.prototype.endsWith
EndsWith(s, suffix) ==
    /\ Len(s) >= Len(suffix)
    /\ SubSeq(s, Len(s) - Len(suffix) + 1, Len(s)) = suffix

\* String.prototype.includes
Includes(s, part) ==
    \E i \in 1..(Len(s) + 1) :
        /\ i + Len(part) - 1 <= Len(s)
        /\ SubSeq(s, i, i + Len(part) - 1) = part

DotPdf == <<".", "p", "d", "f">>

StripPdf(name) ==
    IF EndsWith(ToLowerCase(name), DotPdf) THEN SubSeq(name, 1, Len(name) - 4) ELSE name

(***************************************************************************)
(* Records (types).                                                         *)
(***************************************************************************)
\* currentFile = null
NoFile == [id |-> <<0, 0>>, name |-> <<>>, pages |-> <<>>]

SheetMusic(id, name, pages) == [id |-> id, name |-> name, pages |-> pages]

Playlist(id, name, itemIds) == [id |-> id, name |-> name, itemIds |-> itemIds]

\* faulty variant of FileId: the id is the clock value alone
FileIdNoRandom(now, r) == <<now, 0>>

\* `file-${Date.now()}-${Math.random()}`: the pair of the two draws
FileId(now, r) == <<now, r>>

\* `pl-${Date.now()}`
PlaylistId(now) == now

PlaylistIds == {PlaylistId(t) : t \in Clock}

Range(s) == {s[i] : i \in 1..Len(s)}

IdsOf(records) == {r.id : r \in records}

(***************************************************************************)
(* db: the object stores.                                                   *)
(***************************************************************************)
\* Viewer: useState(1), useState(false), useState(2) and useRef(0)
ViewerUseState ==
    /\ scale = 4
    /\ isAutoScrolling = FALSE
    /\ scrollSpeed = 2
    /\ lastTap = 0

\* openDB<SheetMusicDB>('sheet-music-db', 1, ...): the version asked for
DbVersion == 1

\* the two object stores of the schema
DbStoreNames == {"sheetMusic", "playlists"}

\* faulty variant of NeedsOpen: every call opens the database again
NeedsOpenAlways(promise) == TRUE

\* getDb: if (!dbPromise)
NeedsOpen(promise) == promise = "unset"

\* upgrade(db): each store is created if the database does not contain it
Upgrade(stores) == stores \cup {n \in DbStoreNames : n \notin stores}

\* the version of the database after openDB: the upgrade callback runs only
\* when the stored version is below the version asked for
VersionAfterOpen(version, ok) ==
    IF ok /\ version < DbVersion THEN DbVersion ELSE version

StoresAfterOpen(version, stores, ok) ==
    IF ok /\ version < DbVersion THEN Upgrade(stores) ELSE stores

\* getDb(): opens the database when dbPromise is not set yet, and returns
\* dbPromise; `ok' tells whether the open request succeeds
GetDb(ok) ==
    IF NeedsOpen(dbPromise)
    THEN /\ dbPromise' = (IF ok THEN "opened" ELSE "rejected")
         /\ dbOpens' = dbOpens + 1
         /\ dbVersion' = VersionAfterOpen(dbVersion, ok)
         /\ dbStores' = StoresAfterOpen(dbVersion, dbStores, ok)
    ELSE UNCHANGED dbVars

\* the state of the db module once the mount effect has called getDb
DbIsOpen ==
    /\ dbPromise = "opened"
    /\ dbOpens = 1
    /\ dbVersion = DbVersion
    /\ dbStores = DbStoreNames

\* IDBObjectStore.put with keyPath 'id': upsert
Put(store, record) == {x \in store : x.id # record.id} \cup {record}

\* faulty variant of Delete: the record stays
DeleteNothing(store, id) == store

\* IDBObjectStore.delete: nothing happens when the key is absent
Delete(store, id) == {x \in store : x.id # id}

\* key order of 'playlists'
PlaylistKeyLess(a, b) == a < b

\* key order of 'sheetMusic'
FileKeyLess(a, b) == a[1] < b[1] \/ (a[1] = b[1] /\ a[2] < b[2])

RECURSIVE GetAllPlaylists(_)
GetAllPlaylists(store) ==
    IF store = {} THEN <<>>
    ELSE LET first == CHOOSE x \in store :
                          \A y \in store : y.id # x.id => PlaylistKeyLess(x.id, y.id)
         IN  <<first>> \o GetAllPlaylists(store \ {first})

RECURSIVE GetAllSheetMusic(_)
GetAllSheetMusic(store) ==
    IF store = {} THEN <<>>
    ELSE LET first == CHOOSE x \in store :
                          \A y \in store : y.id # x.id => FileKeyLess(x.id, y.id)
         IN  <<first>> \o GetAllSheetMusic(store \ {first})

(***************************************************************************)
(* Array helpers.                                                           *)
(***************************************************************************)
\* Array.prototype.find(p => p.id === id): index of the first match, 0 when none
FindIndex(pls, id) ==
    IF \E i \in 1..Len(pls) : pls[i].id = id
    THEN CHOOSE i \in 1..Len(pls) :
             /\ pls[i].id = id
             /\ \A j \in 1..(i - 1) : pls[j].id # id
    ELSE 0

\* faulty variant of ReplaceById: every entry is replaced
ReplaceEvery(pls, id, updated) == [i \in 1..Len(pls) |-> updated]

\* prev.map(pl => pl.id === playlistId ? updatedPlaylist : pl)
ReplaceById(pls, id, updated) ==
    [i \in 1..Len(pls) |-> IF pls[i].id = id THEN updated ELSE pls[i]]

\* faulty variant of RemoveById: every playlist goes
RemoveEvery(pls, id) == <<>>

\* prev.filter(pl => pl.id !== id)
RemoveById(pls, id) == SelectSeq(pls, LAMBDA pl : pl.id # id)

\* itemIds.filter(id => id !== fileId)
WithoutItem(itemIds, fileId) == SelectSeq(itemIds, LAMBDA id : id # fileId)

\* itemIds.includes(id)
IncludesItem(itemIds, id) == \E i \in 1..Len(itemIds) : itemIds[i] = id

(***************************************************************************)
(* hydratedPlaylists.                                                       *)
(***************************************************************************)
\* new Map(allMusic.map(m => [m.id, m])): a later entry replaces an earlier one
MusicMapGet(music, id) ==
    LET hits == {i \in 1..Len(music) : music[i].id = id}
    IN  IF hits = {} THEN NoFile
        ELSE music[CHOOSE i \in hits : \A j \in hits : j <= i]

\* pl.itemIds.map(id => musicMap.get(id)): the list before the filter (a faulty
\* variant when taken for HydrateItems)
HydrateItemsNoFilter(itemIds, music) ==
    [k \in 1..Len(itemIds) |-> MusicMapGet(music, itemIds[k])]

\* pl.itemIds.map(id => musicMap.get(id)).filter(item => !!item)
HydrateItems(itemIds, music) ==
    SelectSeq(HydrateItemsNoFilter(itemIds, music), LAMBDA item : item # NoFile)

Hydrate(pls, music) ==
    [i \in 1..Len(pls) |->
        [id |-> pls[i].id, name |-> pls[i].name,
         items |-> HydrateItems(pls[i].itemIds, music)]]

(***************************************************************************)
(* Inputs.                                                                  *)
(***************************************************************************)
\* texts typed into the playlist-name field
NameInputs == {<<>>, <<" ", " ">>, <<" ", "a", " ">>}

\* files offered to the file input: name, MIME type, document, page count
PdfType == <<"p", "d", "f">>

Files ==
    { [name |-> <<"a", ".", "p", "d", "f">>, type |-> PdfType, doc |-> "A", numPages |-> 2],
      [name |-> <<"b", ".", "P", "D", "F">>, type |-> <<>>, doc |-> "B", numPages |-> 1],
      [name |-> <<"t", ".", "t">>, type |-> <<"t">>, doc |-> "T", numPages |-> 1] }

\* canvas.toDataURL('image/png') after rendering page i of the document
PageImage(doc, i) == <<doc, i>>

NoPlaylist == Playlist(0, <<>>, <<>>)

\* the texts of the loading overlay: 'Loading your music library...', 'Loading PDF...'
\* and `Rendering page ${i} of ${numPages}...`
LoadingLibrary == <<"library", 0, 0>>

LoadingPdf == <<"pdf", 0, 0>>

\* faulty variant of RenderingPage: the overlay only ever shows the last page
RenderingLastPage(i, numPages) == <<"page", numPages, numPages>>

RenderingPage(i, numPages) == <<"page", i, numPages>>

\* what a pending handler call holds in its closure: the handler, playlistId (or id),
\* fileId (or currentFile.id), playlist (the one found in the render's playlists) and
\* updatedPlaylist (or newPlaylist)
Task(op, pid, item, playlist, rec) ==
    [op |-> op, pid |-> pid, item |-> item, playlist |-> playlist, rec |-> rec]

Idle == [phase |-> "idle", file |-> <<>>, doc |-> "", numPages |-> 0, i |-> 0,
         pages |-> <<>>, rec |-> NoFile]

(***************************************************************************)
(* Initial state: App is mounted, on an empty database or on one that       *)
(* earlier sessions left: two imported items, both in the first of two      *)
(* playlists.                                                               *)
(***************************************************************************)
EarlierItems ==
    <<SheetMusic(FileId(1, 1), <<"a">>, <<PageImage("A", 1), PageImage("A", 2)>>),
      SheetMusic(FileId(2, 2), <<"b">>, <<PageImage("B", 1)>>)>>

EarlierPlaylists ==
    {Playlist(PlaylistId(1), <<"x">>, <<EarlierItems[1].id, EarlierItems[2].id>>),
     Playlist(PlaylistId(2), <<"y">>, <<>>)}

Init ==
    /\ \/ musicStore = {} /\ plStore = {} /\ rnd = 0
       \/ musicStore = Range(EarlierItems) /\ plStore = EarlierPlaylists
          /\ rnd = Len(EarlierItems)
    /\ allMusic = <<>>
    /\ playlists = <<>>
    /\ currentFile = NoFile
    /\ view = "playlists"
    /\ isModalOpen = FALSE
    /\ isLoading = TRUE
    /\ loadingMessage = LoadingLibrary
    /\ newPlaylistName = <<>>
    /\ loadPending = TRUE
    /\ plQueue = <<>>
    /\ imp = Idle
    /\ calls = 0
    /\ alertMsg = "none"
    /\ event = "mount"
    /\ hydrated = <<>>
    /\ DbIsOpen
    /\ ViewerUseState

\* a user event is handled
UserEvent ==
    /\ calls < MaxCalls
    /\ calls' = calls + 1

(***************************************************************************)
(* App: mount effect.                                                       *)
(***************************************************************************)
\* faulty variant of LoadData: each read is awaited and set on its own, so the
\* items are set although the read of the playlists fails
LoadDataOneByOne ==
    /\ UNCHANGED dbVars
    /\ UNCHANGED viewerVars
    /\ UNCHANGED calls
    /\ loadPending
    /\ loadPending' = FALSE
    /\ \E musicOk \in BOOLEAN, plsOk \in BOOLEAN :
          /\ allMusic' = IF musicOk THEN GetAllSheetMusic(musicStore) ELSE allMusic
          /\ playlists' = IF musicOk /\ plsOk THEN GetAllPlaylists(plStore) ELSE playlists
          /\ alertMsg' = IF musicOk /\ plsOk THEN "none" ELSE "loadFailed"
          /\ event' = IF musicOk /\ plsOk THEN "loaded" ELSE "loadFailed"
    /\ isLoading' = FALSE
    /\ UNCHANGED <<musicStore, plStore, currentFile, view, isModalOpen, loadingMessage,
                   newPlaylistName, plQueue, imp, rnd, hydrated>>

\* loadData settles: Promise.all of the two reads, then the setters, or the catch
LoadData ==
    /\ UNCHANGED dbVars
    /\ UNCHANGED viewerVars
    /\ UNCHANGED calls
    /\ loadPending
    /\ loadPending' = FALSE
    /\ \E musicOk \in BOOLEAN, plsOk \in BOOLEAN :
          IF musicOk /\ plsOk
          THEN /\ allMusic' = GetAllSheetMusic(musicStore)
               /\ playlists' = GetAllPlaylists(plStore)
               /\ alertMsg' = "none"
               /\ event' = "loaded"
          ELSE /\ UNCHANGED <<allMusic, playlists>>
               /\ alertMsg' = "loadFailed"
               /\ event' = "loadFailed"
    /\ isLoading' = FALSE
    /\ UNCHANGED <<musicStore, plStore, currentFile, view, isModalOpen, loadingMessage,
                   newPlaylistName, plQueue, imp, rnd, hydrated>>

\* the page is reloaded: the stores stay, every piece of in-memory state starts over.
\* Taken when nothing is in flight: a reload that cuts a pending request off leaves the
\* stores as a failure of that request followed by the reload does.
Reload ==
    /\ UNCHANGED dbVars
    /\ UNCHANGED viewerVars
    /\ UserEvent
    /\ ~loadPending
    /\ plQueue = <<>>
    /\ imp = Idle
    /\ allMusic' = <<>>
    /\ playlists' = <<>>
    /\ currentFile' = NoFile
    /\ view' = "playlists"
    /\ isModalOpen' = FALSE
    /\ isLoading' = TRUE
    /\ loadingMessage' = LoadingLibrary
    /\ newPlaylistName' = <<>>
    /\ loadPending' = TRUE
    /\ plQueue' = <<>>
    /\ imp' = Idle
    /\ alertMsg' = "none"
    /\ event' = "mount"
    /\ UNCHANGED <<musicStore, plStore, rnd, hydrated>>

(***************************************************************************)
(* PlaylistView.                                                            *)
(***************************************************************************)
\* onChange of the name field
SetNewPlaylistName(text) ==
    /\ UNCHANGED dbVars
    /\ UNCHANGED viewerVars
    /\ UNCHANGED calls
    /\ ~isLoading
    /\ view = "playlists"
    /\ newPlaylistName # text
    /\ newPlaylistName' = text
    /\ alertMsg' = "none"
    /\ event' = "typed"
    /\ UNCHANGED <<musicStore, plStore, allMusic, playlists, currentFile, view,
                   isModalOpen, isLoading, loadingMessage, loadPending, plQueue, imp,
                   rnd, hydrated>>

\* App.handleCreatePlaylist up to its await: the new record, and the write is issued
AppCreatePlaylistCall(name, now) ==
    plQueue' = Append(plQueue, Task("create", PlaylistId(now), NoFile.id, NoPlaylist,
                                    Playlist(PlaylistId(now), name, <<>>)))

\* faulty variant of AcceptsName: every text is accepted
AcceptsNameAlways(text) == TRUE

\* the guard of PlaylistView.handleCreatePlaylist
AcceptsName(text) == Trim(text) # <<>>

\* PlaylistView.handleCreatePlaylist (click on the create button)
HandleCreatePlaylist(now) ==
    /\ UNCHANGED dbVars
    /\ UNCHANGED viewerVars
    /\ UserEvent
    /\ ~isLoading
    /\ view = "playlists"
    /\ alertMsg' = "none"
    /\ IF AcceptsName(newPlaylistName)
       THEN /\ AppCreatePlaylistCall(Trim(newPlaylistName), now)
            /\ newPlaylistName' = <<>>
            /\ event' = "createCalled"
       ELSE /\ UNCHANGED <<plQueue, newPlaylistName>>
            /\ event' = "createRejected"
    /\ UNCHANGED <<musicStore, plStore, allMusic, playlists, currentFile, view,
                   isModalOpen, isLoading, loadingMessage, loadPending, imp, rnd,
                   hydrated>>

(***************************************************************************)
(* App: playlist handlers, up to their await.                               *)
(***************************************************************************)
\* handleDeletePlaylist: window.confirm, then the delete is issued
HandleDeletePlaylist(id, confirmed) ==
    /\ UNCHANGED dbVars
    /\ UNCHANGED viewerVars
    /\ UserEvent
    /\ ~isLoading
    /\ alertMsg' = "none"
    /\ IF confirmed
       THEN /\ plQueue' = Append(plQueue, Task("delete", id, NoFile.id, NoPlaylist, NoPlaylist))
            /\ event' = "deleteCalled"
       ELSE /\ UNCHANGED plQueue
            /\ event' = "deleteDeclined"
    /\ UNCHANGED <<musicStore, plStore, allMusic, playlists, currentFile, view,
                   isModalOpen, isLoading, loadingMessage, newPlaylistName, loadPending,
                   imp, rnd, hydrated>>

\* faulty variant of AlreadyIn: no duplicate is noticed
AlreadyInNever(playlist, fileId) == FALSE

\* the duplicate check of handleAddToPlaylist
AlreadyIn(playlist, fileId) == IncludesItem(playlist.itemIds, fileId)

\* handleAddToPlaylist
HandleAddToPlaylist(playlistId) ==
    /\ UNCHANGED dbVars
    /\ UNCHANGED viewerVars
    /\ UserEvent
    /\ ~isLoading
    /\ LET k == FindIndex(playlists, playlistId) IN
       IF currentFile = NoFile \/ k = 0
       THEN /\ UNCHANGED plQueue
            /\ alertMsg' = "none"
            /\ event' = "addIgnored"
       ELSE IF AlreadyIn(playlists[k], currentFile.id)
       THEN /\ UNCHANGED plQueue
            /\ alertMsg' = "alreadyInPlaylist"
            /\ event' = "addDuplicate"
       ELSE /\ plQueue' = Append(plQueue,
                   Task("add", playlistId, currentFile.id, playlists[k],
                        Playlist(playlists[k].id, playlists[k].name,
                                 Append(playlists[k].itemIds, currentFile.id))))
            /\ alertMsg' = "none"
            /\ event' = "addCalled"
    /\ UNCHANGED <<musicStore, plStore, allMusic, playlists, currentFile, view,
                   isModalOpen, isLoading, loadingMessage, newPlaylistName, loadPending,
                   imp, rnd, hydrated>>

\* handleRemoveFromPlaylist
HandleRemoveFromPlaylist(playlistId, fileId) ==
    /\ UNCHANGED dbVars
    /\ UNCHANGED viewerVars
    /\ UserEvent
    /\ ~isLoading
    /\ alertMsg' = "none"
    /\ LET k == FindIndex(playlists, playlistId) IN
       IF k = 0
       THEN /\ UNCHANGED plQueue
            /\ event' = "removeIgnored"
       ELSE /\ plQueue' = Append(plQueue,
                   Task("remove", playlistId, fileId, playlists[k],
                        Playlist(playlists[k].id, playlists[k].name,
                                 WithoutItem(playlists[k].itemIds, fileId))))
            /\ event' = "removeCalled"
    /\ UNCHANGED <<musicStore, plStore, allMusic, playlists, currentFile, view,
                   isModalOpen, isLoading, loadingMessage, newPlaylistName, loadPending,
                   imp, rnd, hydrated>>

(***************************************************************************)
(* App: playlist handlers, from their await on.                             *)
(***************************************************************************)
\* faulty variant of StoreAfter: the request settles without effect on the store
StoreAfterNoWrite(task) == plStore

\* what the oldest pending request does to 'playlists' when it succeeds
StoreAfter(task) ==
    IF task.op = "delete" THEN Delete(plStore, task.pid) ELSE Put(plStore, task.rec)

\* the setPlaylists(prev => ...) of the handler that issued it
PlaylistsAfter(task) ==
    CASE task.op = "create" -> Append(playlists, task.rec)
      [] task.op = "delete" -> RemoveById(playlists, task.pid)
      [] OTHER -> ReplaceById(playlists, task.pid, task.rec)

\* the oldest pending write settles and its handler resumes, or throws
SettlePlaylistWrite(ok) ==
    /\ UNCHANGED dbVars
    /\ UNCHANGED viewerVars
    /\ UNCHANGED calls
    /\ plQueue # <<>>
    /\ LET task == Head(plQueue) IN
       IF ok
       THEN /\ plStore' = StoreAfter(task)
            /\ playlists' = PlaylistsAfter(task)
            /\ isModalOpen' = IF task.op = "add" THEN FALSE ELSE isModalOpen
            /\ alertMsg' = IF task.op = "add" THEN "added" ELSE "none"
            /\ event' = task.op
       ELSE /\ UNCHANGED <<plStore, playlists, isModalOpen>>
            /\ alertMsg' = "none"
            /\ event' = "unhandledRejection"
    /\ plQueue' = Tail(plQueue)
    /\ UNCHANGED <<musicStore, allMusic, currentFile, view, isLoading, loadingMessage,
                   newPlaylistName, loadPending, imp, rnd, hydrated>>

(***************************************************************************)
(* App: navigation.                                                         *)
(***************************************************************************)
\* handleSelectFileFromPlaylist: the View button of an item of a hydrated playlist
HandleSelectFileFromPlaylist(file) ==
    /\ UNCHANGED dbVars
    /\ UNCHANGED viewerVars
    /\ UNCHANGED calls
    /\ ~isLoading
    /\ view = "playlists"
    /\ currentFile' = file
    /\ view' = "viewer"
    /\ newPlaylistName' = <<>>          \* PlaylistView is unmounted
    /\ alertMsg' = "none"
    /\ event' = "opened"
    /\ UNCHANGED <<musicStore, plStore, allMusic, playlists, isModalOpen, isLoading,
                   loadingMessage, loadPending, plQueue, imp, rnd, hydrated>>

\* faulty variant of HandleCloseViewer: the file is dropped, the view stays
HandleCloseViewerKeepsView ==
    /\ UNCHANGED dbVars
    /\ UNCHANGED viewerVars
    /\ UNCHANGED calls
    /\ ~isLoading
    /\ view = "viewer"
    /\ currentFile # NoFile
    /\ currentFile' = NoFile
    /\ alertMsg' = "none"
    /\ event' = "closed"
    /\ UNCHANGED <<musicStore, plStore, allMusic, playlists, isModalOpen, isLoading,
                   loadingMessage, newPlaylistName, loadPending, plQueue, imp, rnd,
                   hydrated, view>>

\* handleCloseViewer
HandleCloseViewer ==
    /\ UNCHANGED dbVars
    /\ UNCHANGED viewerVars
    /\ UNCHANGED calls
    /\ ~isLoading
    /\ view = "viewer"
    /\ view' = "playlists"
    /\ currentFile' = NoFile
    /\ alertMsg' = "none"
    /\ event' = "closed"
    /\ UNCHANGED <<musicStore, plStore, allMusic, playlists, isModalOpen, isLoading,
                   loadingMessage, newPlaylistName, loadPending, plQueue, imp, rnd,
                   hydrated>>

\* onAddToPlaylist of the Viewer (open), onClose of the Modal (close)
SetIsModalOpen(open) ==
    /\ UNCHANGED dbVars
    /\ UNCHANGED viewerVars
    /\ UNCHANGED calls
    /\ ~isLoading
    /\ currentFile # NoFile
    /\ open => view = "viewer"
    /\ isModalOpen # open
    /\ isModalOpen' = open
    /\ alertMsg' = "none"
    /\ event' = "modal"
    /\ UNCHANGED <<musicStore, plStore, allMusic, playlists, currentFile, view,
                   isLoading, loadingMessage, newPlaylistName, loadPending, plQueue,
                   imp, rnd, hydrated>>

(***************************************************************************)
(* App: handleFileSelect.                                                   *)
(***************************************************************************)
\* faulty variant of IsPdf: every file is taken for a PDF
IsPdfAlways(file) == TRUE

\* the test of line 53, negated
IsPdf(file) ==
    Includes(file.type, PdfType) \/ EndsWith(ToLowerCase(file.name), DotPdf)

\* up to the first await; picked is FALSE when the dialog gave no file.  The dialog
\* of the hidden input is opened by handleOpenDeviceFiles, which only PlaylistView
\* is given.
HandleFileSelect(picked, file) ==
    /\ UNCHANGED dbVars
    /\ UNCHANGED viewerVars
    /\ UserEvent
    /\ ~isLoading
    /\ view = "playlists"
    /\ imp = Idle
    /\ IF ~picked
       THEN /\ UNCHANGED <<isLoading, loadingMessage, imp>>
            /\ alertMsg' = "none"
            /\ event' = "noFile"
       ELSE IF ~IsPdf(file)
       THEN /\ UNCHANGED <<isLoading, loadingMessage, imp>>
            /\ alertMsg' = "invalidPdf"
            /\ event' = "notPdf"
       ELSE /\ isLoading' = TRUE
            /\ loadingMessage' = LoadingPdf
            /\ imp' = [Idle EXCEPT !.phase = "read", !.file = file.name, !.doc = file.doc,
                                   !.numPages = file.numPages]
            /\ alertMsg' = "none"
            /\ event' = "importStarted"
    /\ UNCHANGED <<musicStore, plStore, allMusic, playlists, currentFile, view,
                   isModalOpen, newPlaylistName, loadPending, plQueue, rnd, hydrated>>

\* faulty variant of ImportFailed: without the finally block the overlay stays
ImportFailedStaysLoading ==
    /\ imp' = Idle
    /\ alertMsg' = "processFailed"
    /\ event' = "importFailed"
    /\ UNCHANGED <<musicStore, plStore, allMusic, playlists, currentFile, view,
                   isModalOpen, isLoading, loadingMessage, newPlaylistName, loadPending,
                   plQueue, rnd, hydrated>>

\* faulty variant of ImportFailed: what was rendered so far is persisted
ImportFailedKeepsPages ==
    /\ imp' = Idle
    /\ isLoading' = FALSE
    /\ alertMsg' = "processFailed"
    /\ event' = "importFailed"
    /\ musicStore' = Put(musicStore, SheetMusic(FileId(1, 0), imp.file, imp.pages))
    /\ UNCHANGED <<plStore, allMusic, playlists, currentFile, view,
                   isModalOpen, loadingMessage, newPlaylistName, loadPending, plQueue,
                   rnd, hydrated>>

\* catch and finally of handleFileSelect
ImportFailed ==
    /\ imp' = Idle
    /\ isLoading' = FALSE
    /\ alertMsg' = "processFailed"
    /\ event' = "importFailed"
    /\ UNCHANGED <<musicStore, plStore, allMusic, playlists, currentFile, view,
                   isModalOpen, loadingMessage, newPlaylistName, loadPending, plQueue,
                   rnd, hydrated>>

\* file.arrayBuffer() settles
ImportRead(ok) ==
    /\ UNCHANGED dbVars
    /\ UNCHANGED viewerVars
    /\ UNCHANGED calls
    /\ imp.phase = "read"
    /\ IF ok
       THEN /\ imp' = [imp EXCEPT !.phase = "open"]
            /\ alertMsg' = "none"
            /\ event' = "fileRead"
            /\ UNCHANGED <<musicStore, plStore, allMusic, playlists, currentFile, view,
                           isModalOpen, isLoading, loadingMessage, newPlaylistName,
                           loadPending, plQueue, rnd, hydrated>>
       ELSE ImportFailed

\* getDocument settles; then the canvas context, and the loop reaches page 1
ImportOpen(ok, hasContext) ==
    /\ UNCHANGED dbVars
    /\ UNCHANGED viewerVars
    /\ UNCHANGED calls
    /\ imp.phase = "open"
    /\ IF ok /\ hasContext
       THEN /\ imp' = [imp EXCEPT !.phase = "page", !.i = 1]
            /\ loadingMessage' = RenderingPage(1, imp.numPages)
            /\ alertMsg' = "none"
            /\ event' = "documentOpened"
            /\ UNCHANGED <<musicStore, plStore, allMusic, playlists, currentFile, view,
                           isModalOpen, isLoading, newPlaylistName, loadPending, plQueue,
                           rnd, hydrated>>
       ELSE ImportFailed

\* getPage(i) and render settle; then the next page, or the new item and its write
ImportPage(ok, now) ==
    /\ UNCHANGED dbVars
    /\ UNCHANGED viewerVars
    /\ UNCHANGED calls
    /\ imp.phase = "page"
    /\ IF ~ok THEN ImportFailed
       ELSE LET pages == Append(imp.pages, PageImage(imp.doc, imp.i)) IN
            /\ alertMsg' = "none"
            /\ IF imp.i < imp.numPages
               THEN /\ imp' = [imp EXCEPT !.i = imp.i + 1, !.pages = pages]
                    /\ loadingMessage' = RenderingPage(imp.i + 1, imp.numPages)
                    /\ event' = "pageRendered"
                    /\ UNCHANGED rnd
               ELSE /\ rnd' = rnd + 1
                    /\ imp' = [imp EXCEPT !.phase = "save", !.pages = pages,
                                   !.rec = SheetMusic(FileId(now, rnd + 1),
                                                      StripPdf(imp.file), pages)]
                    /\ event' = "saveCalled"
                    /\ UNCHANGED loadingMessage
            /\ UNCHANGED <<musicStore, plStore, allMusic, playlists, currentFile, view,
                           isModalOpen, isLoading, newPlaylistName, loadPending, plQueue,
                           hydrated>>

\* saveSheetMusic settles
ImportSave(ok) ==
    /\ UNCHANGED dbVars
    /\ UNCHANGED viewerVars
    /\ UNCHANGED calls
    /\ imp.phase = "save"
    /\ IF ~ok THEN ImportFailed
       ELSE /\ musicStore' = Put(musicStore, imp.rec)
            /\ allMusic' = Append(allMusic, imp.rec)
            /\ currentFile' = imp.rec
            /\ view' = "viewer"
            /\ newPlaylistName' = <<>>      \* PlaylistView is unmounted
            /\ isLoading' = FALSE
            /\ imp' = Idle
            /\ alertMsg' = "none"
            /\ event' = "imported"
            /\ UNCHANGED <<plStore, playlists, isModalOpen, loadingMessage, loadPending,
                           plQueue, rnd, hydrated>>

(***************************************************************************)
(* The controller.                                                          *)
(***************************************************************************)
HydratedPlaylists == Hydrate(playlists, allMusic)

\* the items a View button is rendered for
ShownItems ==
    UNION {Range(HydratedPlaylists[i].items) : i \in 1..Len(HydratedPlaylists)}

\* the file ids handleRemoveFromPlaylist is called with: those of the library, and
\* one that no item has
RemovableIds == IdsOf(Range(allMusic)) \cup {FileId(1, 0)}

Next ==
    \/ LoadData
    \/ Reload
    \/ \E text \in NameInputs : SetNewPlaylistName(text)
    \/ \E now \in Clock : HandleCreatePlaylist(now)
    \/ \E id \in PlaylistIds, confirmed \in BOOLEAN : HandleDeletePlaylist(id, confirmed)
    \/ \E id \in PlaylistIds : HandleAddToPlaylist(id)
    \/ \E id \in PlaylistIds, fileId \in RemovableIds : HandleRemoveFromPlaylist(id, fileId)
    \/ \E ok \in BOOLEAN : SettlePlaylistWrite(ok)
    \/ \E file \in ShownItems : HandleSelectFileFromPlaylist(file)
    \/ HandleCloseViewer
    \/ \E open \in BOOLEAN : SetIsModalOpen(open)
    \/ \E picked \in BOOLEAN, file \in Files : HandleFileSelect(picked, file)
    \/ \E ok \in BOOLEAN : ImportRead(ok)
    \/ \E ok \in BOOLEAN, hasContext \in BOOLEAN : ImportOpen(ok, hasContext)
    \/ \E ok \in BOOLEAN, now \in Clock : ImportPage(ok, now)
    \/ \E ok \in BOOLEAN : ImportSave(ok)

Spec == Init /\ [][Next]_vars

(***************************************************************************)
(* Properties.                                                              *)
(***************************************************************************)
NoRepeat(seq) == \A i \in 1..Len(seq), j \in 1..Len(seq) : seq[i] = seq[j] => i = j

Occurrences(seq, x) == Cardinality({i \in 1..Len(seq) : seq[i] = x})

\* the step in which the oldest pending write to 'playlists' succeeds
SettledOk == plQueue # <<>> /\ plQueue' = Tail(plQueue) /\ event' = Head(plQueue).op

\* C1: whatever addMember calls were made, in whatever order and however often
\* repeated or overlapped, no playlist lists the same item id twice, neither in the
\* playlists array nor in the 'playlists' store.
C1_NoDuplicateItemIds ==
    /\ \A i \in 1..Len(playlists) : NoRepeat(playlists[i].itemIds)
    /\ \A p \in plStore : NoRepeat(p.itemIds)

\* C1 witness: an add has taken effect and a second add of the same pair, called
\* before the first one settled, is still pending.
C1_RepeatedAddPending ==
    /\ event = "add"
    /\ plQueue # <<>>
    /\ Head(plQueue).op = "add"
    /\ \E p \in plStore : p.id = Head(plQueue).pid /\ IncludesItem(p.itemIds, Head(plQueue).item)
    /\ \E i \in 1..Len(playlists) :
          playlists[i].id = Head(plQueue).pid
          /\ IncludesItem(playlists[i].itemIds, Head(plQueue).item)

\* what a membership call does to a list of item ids
ApplyMember(task, itemIds) ==
    IF task.op = "add"
    THEN IF IncludesItem(itemIds, task.item) THEN itemIds ELSE Append(itemIds, task.item)
    ELSE WithoutItem(itemIds, task.item)

\* C2: membership calls on one playlist take effect in call order: when the write of
\* a call settles, the playlist's itemIds in the store and in the playlists array
\* become the call applied to the itemIds that the earlier calls left there.
C2_AppliedInCallOrder ==
    [][ (SettledOk /\ Head(plQueue).op \in {"add", "remove"})
        => LET task == Head(plQueue) IN
           /\ \A p \in plStore : p.id = task.pid =>
                 \E q \in plStore' :
                     q.id = task.pid /\ q.itemIds = ApplyMember(task, p.itemIds)
           /\ \A i \in 1..Len(playlists) : playlists[i].id = task.pid =>
                 playlists'[i].itemIds = ApplyMember(task, playlists[i].itemIds) ]_vars

\* C3: every id of the playlists array is unique, and a create that succeeds adds
\* one record to the 'playlists' store and replaces none.
C3_UniquePlaylistIds ==
    [][ (SettledOk /\ Head(plQueue).op = "create")
        => /\ \A i \in 1..Len(playlists'), j \in 1..Len(playlists') :
                 playlists'[i].id = playlists'[j].id => i = j
           /\ plStore \subseteq plStore'
           /\ Cardinality(plStore') = Cardinality(plStore) + 1 ]_vars

\* C4: write-through.  A step that changes an in-memory collection (other than the
\* reset of a page reload) leaves every record it put there in the store, and every
\* playlist it dropped out of the store; a step in which a store request fails
\* leaves both collections as they were.
C4_WriteThrough ==
    [][ /\ (playlists' # playlists /\ event' # "mount")
           => /\ (Range(playlists') \ Range(playlists)) \subseteq plStore'
              /\ (IdsOf(Range(playlists)) \ IdsOf(Range(playlists')))
                    \cap IdsOf(plStore') = {}
        /\ (allMusic' # allMusic /\ event' # "mount")
           => (Range(allMusic') \ Range(allMusic)) \subseteq musicStore'
        /\ event' \in {"unhandledRejection", "importFailed", "loadFailed"}
           => playlists' = playlists /\ allMusic' = allMusic ]_vars

\* C4 witness: a write to 'playlists' has just failed while both collections hold
\* records written earlier.
C4_WriteFailedCacheKept ==
    /\ event = "unhandledRejection"
    /\ playlists # <<>>
    /\ allMusic # <<>>
    /\ Range(playlists) \subseteq plStore
    /\ Range(allMusic) \subseteq musicStore

C6_AbsentRemoveChangesNothing ==
    [][ /\ (\E id \in PlaylistIds, fileId \in RemovableIds :
               /\ HandleRemoveFromPlaylist(id, fileId)
               /\ \/ FindIndex(playlists, id) = 0
                  \/ ~IncludesItem(playlists[FindIndex(playlists, id)].itemIds, fileId))
           => plStore' = plStore /\ playlists' = playlists
        /\ ( /\ SettledOk
             /\ Head(plQueue).op = "remove"
             /\ ~IncludesItem(Head(plQueue).playlist.itemIds, Head(plQueue).item) )
           => plStore' = plStore /\ playlists' = playlists ]_vars

\* C7: a click on create while the name field is empty or holds only whitespace
\* issues no write, leaves the store and the playlists array as they were and raises
\* no alert.
C7_BlankNameCreatesNothing ==
    [][ \A now \in Clock :
          (HandleCreatePlaylist(now) /\ \A i \in 1..Len(newPlaylistName) :
                                            IsSpace(newPlaylistName[i]))
          => /\ plQueue' = plQueue
             /\ plStore' = plStore
             /\ playlists' = playlists
             /\ Len(playlists') = Len(playlists)
             /\ alertMsg' = "none"
             /\ event' # "unhandledRejection" ]_vars

\* C7 witness: create has just been clicked with a whitespace-only name, one
\* playlist existing, and nothing is pending.
C7_BlankNameClicked ==
    /\ event = "createRejected"
    /\ newPlaylistName = <<" ", " ">>
    /\ playlists # <<>>
    /\ Range(playlists) = plStore
    /\ plQueue = <<>>

\* the text of a name without its leading and trailing blanks
IsTrimOf(name, text) ==
    /\ name # <<>>
    /\ ~IsSpace(name[1])
    /\ ~IsSpace(name[Len(name)])
    /\ \E lead \in 0..Len(text) :
          /\ lead + Len(name) <= Len(text)
          /\ SubSeq(text, lead + 1, lead + Len(name)) = name
          /\ \A i \in 1..Len(text) :
                (i <= lead \/ i > lead + Len(name)) => IsSpace(text[i])

\* C8: round trip.  A create with a non-blank name hands the store a playlist with
\* the trimmed name, the id drawn and no items; when its write has settled, what
\* loadData reads back from the stores holds exactly one playlist of that id, with
\* that name, empty itemIds and, hydrated, empty items.
C8_CreateRoundTrip ==
    [][ /\ \A now \in Clock :
             (HandleCreatePlaylist(now) /\ event' = "createCalled")
             => LET task == plQueue'[Len(plQueue')] IN
                /\ task.op = "create"
                /\ task.pid = PlaylistId(now)
                /\ task.rec.id = PlaylistId(now)
                /\ IsTrimOf(task.rec.name, newPlaylistName)
                /\ task.rec.itemIds = <<>>
        /\ (SettledOk /\ Head(plQueue).op = "create")
           => LET task == Head(plQueue)
                  pls == GetAllPlaylists(plStore')
                  hyd == Hydrate(pls, GetAllSheetMusic(musicStore'))
                  at == {i \in 1..Len(pls) : pls[i].id = task.pid}
              IN  /\ Cardinality(at) = 1
                  /\ \A i \in at : /\ pls[i].name = task.rec.name
                                   /\ pls[i].itemIds = <<>>
                                   /\ hyd[i].id = task.pid
                                   /\ hyd[i].name = task.rec.name
                                   /\ hyd[i].items = <<>> ]_vars

\* C8 witness: after a create the page was reloaded and loadData has put the
\* playlist, named as typed and empty, back into the playlists array.
C8_ReloadedAfterCreate ==
    /\ event = "loaded"
    /\ calls > 0
    /\ \E i \in 1..Len(playlists) :
          /\ playlists[i].name = <<"a">>
          /\ playlists[i].itemIds = <<>>
          /\ HydratedPlaylists[i].items = <<>>

\* the name of a document without a final ".pdf", in whatever case
IsPdfStemOf(name, fileName) ==
    IF Len(fileName) >= 4
       /\ ToLowerCase(SubSeq(fileName, Len(fileName) - 3, Len(fileName))) = DotPdf
    THEN name \o SubSeq(fileName, Len(fileName) - 3, Len(fileName)) = fileName
    ELSE name = fileName

\* C9: an import that succeeds adds exactly one item, under an id that neither the
\* store nor allMusic held, named as the file without its final '.pdf' (any case),
\* with the page images 1..n in order; every item already there stays as it was,
\* in this and in every other step of an import.
C9_ImportAddsOneItem ==
    [][ /\ event' = "imported"
           => LET new == imp.rec IN
              /\ new.id \notin IdsOf(musicStore)
              /\ new.id \notin IdsOf(Range(allMusic))
              /\ musicStore' = musicStore \cup {new}
              /\ Cardinality(musicStore') = Cardinality(musicStore) + 1
              /\ allMusic' = Append(allMusic, new)
              /\ IsPdfStemOf(new.name, imp.file)
              /\ Len(new.pages) = imp.numPages
              /\ \A i \in 1..imp.numPages : new.pages[i] = PageImage(imp.doc, i)
        /\ musicStore \subseteq musicStore'
        /\ event' # "mount"
           => \A i \in 1..Len(allMusic) : allMusic'[i] = allMusic[i] ]_vars

\* C9 witness: the same two-page document was imported twice and the library holds
\* two items of equal name and pages under different ids, in the store too.
C9_SameFileImportedTwice ==
    /\ event = "imported"
    /\ Len(allMusic) = 2
    /\ allMusic[1].name = <<"a">>
    /\ allMusic[2].name = <<"a">>
    /\ Len(allMusic[1].pages) = 2
    /\ allMusic[1].pages = allMusic[2].pages
    /\ allMusic[1].id # allMusic[2].id
    /\ Range(allMusic) = musicStore

(***************************************************************************)
(* The hydration view over a database left by earlier sessions.             *)
(***************************************************************************)
\* the items such a database may hold
LibraryItems ==
    {SheetMusic(FileId(1, r), <<"a">>, <<PageImage("A", r)>>) : r \in 1..MaxLibrary}

RECURSIVE MemberSeqs(_)
\* sequences of at most n different ids of library items
MemberSeqs(n) ==
    IF n = 0 THEN {<<>>}
    ELSE LET shorter == MemberSeqs(n - 1) IN
         shorter \cup UNION {{Append(seq, id) : id \in IdsOf(LibraryItems) \ Range(seq)} :
                                 seq \in shorter}

\* db.deleteSheetMusic
DeleteSheetMusic(id, ok) ==
    /\ UNCHANGED dbVars
    /\ UNCHANGED viewerVars
    /\ UserEvent
    /\ ~isLoading
    /\ musicStore' = IF ok THEN Delete(musicStore, id) ELSE musicStore
    /\ alertMsg' = "none"
    /\ event' = IF ok THEN "itemDeleted" ELSE "unhandledRejection"
    /\ UNCHANGED <<plStore, allMusic, playlists, currentFile, view, isModalOpen,
                   isLoading, loadingMessage, newPlaylistName, loadPending, plQueue,
                   imp, rnd, hydrated>>

\* the useMemo of hydratedPlaylists is evaluated in a render
RenderHydratedPlaylists ==
    /\ UNCHANGED dbVars
    /\ UNCHANGED viewerVars
    /\ ~isLoading
    /\ hydrated' = Hydrate(playlists, allMusic)
    /\ alertMsg' = "none"
    /\ event' = "rendered"
    /\ UNCHANGED <<musicStore, plStore, allMusic, playlists, currentFile, view,
                   isModalOpen, isLoading, loadingMessage, newPlaylistName, loadPending,
                   plQueue, imp, rnd, calls>>

InitHydrate ==
    /\ musicStore \in SUBSET LibraryItems
    /\ \E first \in MemberSeqs(MaxMembers), second \in MemberSeqs(MaxMembers) :
          plStore \in SUBSET {Playlist(PlaylistId(1), <<"a">>, first),
                              Playlist(PlaylistId(2), <<"b">>, second)}
    /\ allMusic = <<>>
    /\ playlists = <<>>
    /\ currentFile = NoFile
    /\ view = "playlists"
    /\ isModalOpen = FALSE
    /\ isLoading = TRUE
    /\ loadingMessage = LoadingLibrary
    /\ newPlaylistName = <<>>
    /\ loadPending = TRUE
    /\ plQueue = <<>>
    /\ imp = Idle
    /\ rnd = 0
    /\ calls = 0
    /\ alertMsg = "none"
    /\ event = "mount"
    /\ hydrated = <<>>
    /\ DbIsOpen
    /\ ViewerUseState

NextHydrate ==
    \/ LoadData
    \/ Reload
    \/ RenderHydratedPlaylists
    \/ \E id \in IdsOf(LibraryItems), ok \in BOOLEAN : DeleteSheetMusic(id, ok)

SpecHydrate == InitHydrate /\ [][NextHydrate]_vars

\* C10: hydrate gives one entry per playlist, in the order of playlists and with its
\* id and name, whose items are the items of the ids of itemIds that allMusic holds,
\* in the order of itemIds, the other ids being dropped; playlists and allMusic are
\* as before; and there is a result when playlists, allMusic or itemIds is empty.
C10_HydrateResolvesInOrder ==
    [][ event' = "rendered"
        => /\ playlists' = playlists
           /\ allMusic' = allMusic
           /\ Len(hydrated') = Len(playlists)
           /\ \A i \in 1..Len(playlists) :
                 LET kept == SelectSeq(playlists[i].itemIds,
                                       LAMBDA id : id \in IdsOf(Range(allMusic)))
                 IN  /\ hydrated'[i].id = playlists[i].id
                     /\ hydrated'[i].name = playlists[i].name
                     /\ Len(hydrated'[i].items) = Len(kept)
                     /\ \A k \in 1..Len(kept) :
                           /\ hydrated'[i].items[k].id = kept[k]
                           /\ hydrated'[i].items[k] \in Range(allMusic) ]_vars

\* C10 witness: a render in which one playlist lists two ids of which one resolves,
\* and another playlist lists none.
C10_RenderedWithDanglingId ==
    /\ event = "rendered"
    /\ Len(hydrated) = 2
    /\ \E i \in 1..2 : Len(playlists[i].itemIds) = 2 /\ Len(hydrated[i].items) = 1
    /\ \E j \in 1..2 : playlists[j].itemIds = <<>> /\ hydrated[j].items = <<>>

\* C11: when deleteSheetMusic has removed an item that playlists list, hydrate over
\* the item set read back from the store gives, for every playlist, the items it gave
\* before less that item, in the same order: one entry fewer where the playlist
\* referred to the item, none fewer elsewhere; and every playlist's itemIds, in the
\* store and in the playlists array, is as before (the id is kept, not pruned).
\* A render over the item set as loaded after the deletions shows what the render
\* before it showed, less the items deleted from the store in between.
C11_DeletedItemDropsOut ==
    [][ /\ \A id \in IdsOf(LibraryItems) :
             (DeleteSheetMusic(id, TRUE) /\ event' = "itemDeleted")
             => LET before == Hydrate(playlists, GetAllSheetMusic(musicStore))
                    after == Hydrate(playlists', GetAllSheetMusic(musicStore'))
                IN  /\ plStore' = plStore
                    /\ playlists' = playlists
                    /\ Len(after) = Len(before)
                    /\ \A i \in 1..Len(playlists) :
                          /\ after[i].items =
                                SelectSeq(before[i].items, LAMBDA item : item.id # id)
                          /\ \A k \in 1..Len(after[i].items) : after[i].items[k].id # id
                          /\ Len(after[i].items) =
                                Len(before[i].items)
                                - (IF id \in IdsOf(musicStore)
                                      /\ IncludesItem(playlists[i].itemIds, id)
                                   THEN 1 ELSE 0)
        /\ ( /\ event' = "rendered"
             /\ playlists # <<>>
             /\ Len(hydrated) = Len(playlists)
             /\ Range(allMusic) = musicStore )
           => \A i \in 1..Len(playlists) :
                 /\ hydrated'[i].items =
                       SelectSeq(hydrated[i].items, LAMBDA item : item \in musicStore)
                 /\ playlists[i] \in plStore ]_vars

\* C11 witness: deleteSheetMusic has just removed from the store an item that the
\* session had loaded and that a stored playlist lists together with another item.
C11_ReferencedItemDeleted ==
    /\ event = "itemDeleted"
    /\ \E i \in 1..Len(playlists) :
          /\ playlists[i] \in plStore
          /\ Len(playlists[i].itemIds) = 2
          /\ \E id \in Range(playlists[i].itemIds) :
                /\ id \in IdsOf(Range(allMusic))
                /\ id \notin IdsOf(musicStore)
          /\ \E other \in Range(playlists[i].itemIds) : other \in IdsOf(musicStore)

\* the steps of handleFileSelect
ImportEvents ==
    {"noFile", "notPdf", "importStarted", "fileRead", "documentOpened", "pageRendered",
     "saveCalled", "imported", "importFailed"}

\* C12: an import that fails, at the read of the file, the opening of the document,
\* the rendering of a page or the write to the store, ends with the processing alert
\* and the indicator cleared, and neither that step nor any step of the import before
\* it changes the 'sheetMusic' store, allMusic, the playlists (store and array), the
\* view or currentFile: nothing of the item is persisted.
C12_FailedImportChangesNothing ==
    [][ /\ (event' \in ImportEvents \ {"imported"})
           => /\ musicStore' = musicStore
              /\ allMusic' = allMusic
              /\ plStore' = plStore
              /\ playlists' = playlists
              /\ view' = view
              /\ currentFile' = currentFile
        /\ (imp.phase # "idle" /\ imp'.phase = "idle" /\ event' # "imported")
           => /\ event' = "importFailed"
              /\ alertMsg' = "processFailed"
              /\ ~isLoading'
              /\ imp.rec \notin musicStore' ]_vars

\* C12 witness: an import of the two-page document has just failed after its last
\* page was reached, with a library and playlists loaded that the stores hold.
C12_ImportFailedLate ==
    /\ event = "importFailed"
    /\ loadingMessage = RenderingPage(2, 2)
    /\ allMusic # <<>>
    /\ Range(allMusic) = musicStore
    /\ playlists # <<>>
    /\ Range(playlists) = plStore

\* C13: a store request of create, delete, add, remove or import that fails ends in
\* an alert that tells the user of the failure, and never in the notice of success.
C13_StoreFailureSurfaced ==
    [][ event' \in {"unhandledRejection", "importFailed"}
        => alertMsg' \notin {"none", "added"} ]_vars

\* C14: handleDeletePlaylist changes nothing when the confirmation is declined, and
\* nothing before the confirmed request has settled; when it settles, the store and
\* the playlists array lose the playlists of that id and no other, the remaining ones
\* unchanged and in order, and no item changes in the 'sheetMusic' store or allMusic.
C14_DeleteOnlyWhenConfirmed ==
    [][ /\ (event' \in {"deleteDeclined", "deleteCalled"})
           => /\ plStore' = plStore
              /\ playlists' = playlists
              /\ musicStore' = musicStore
              /\ allMusic' = allMusic
        /\ (event' = "deleteDeclined") => plQueue' = plQueue
        /\ (SettledOk /\ Head(plQueue).op = "delete")
           => LET id == Head(plQueue).pid IN
              /\ plStore' = {p \in plStore : p.id # id}
              /\ playlists' = SelectSeq(playlists, LAMBDA p : p.id # id)
              /\ musicStore' = musicStore
              /\ allMusic' = allMusic ]_vars

\* C14 witness: a confirmed delete has just removed one of the two stored playlists;
\* the other one and the items are still in the stores and in memory.
C14_OneOfTwoDeleted ==
    /\ event = "delete"
    /\ Len(playlists) = 1
    /\ Range(playlists) = plStore
    /\ plStore \subseteq EarlierPlaylists
    /\ allMusic # <<>>
    /\ Range(allMusic) = musicStore

\* C15: whenever the view is the viewer there is a current file, whatever imports
\* (succeeding or failing), openings from a playlist and closings came before.
C15_ViewerHasFile ==
    view = "viewer" => currentFile # NoFile

\* C15 witness: an import was started and did not add an item, and afterwards an
\* item has just been opened from a playlist.
C15_OpenedAfterFailedImport ==
    /\ event = "opened"
    /\ view = "viewer"
    /\ loadingMessage # LoadingLibrary
    /\ musicStore = Range(EarlierItems)
    /\ currentFile \in musicStore

\* C16: a deletion of an item that succeeds removes the item of that id from the
\* 'sheetMusic' store and from allMusic and nothing else, leaves every playlist, in
\* the store and in the playlists array, as it was, and changes nothing when no item
\* has that id.
C16_ItemDeletionNoCascade ==
    [][ \A id \in IdsOf(LibraryItems) :
          (DeleteSheetMusic(id, TRUE) /\ event' = "itemDeleted")
          => /\ musicStore' = {m \in musicStore : m.id # id}
             /\ allMusic' = SelectSeq(allMusic, LAMBDA m : m.id # id)
             /\ plStore' = plStore
             /\ playlists' = playlists ]_vars

\* C17: when loadData settles, either both reads succeeded and allMusic and playlists
\* hold what the stores hold, or a read failed, the user is told, and allMusic and
\* playlists are both still empty; in either case the loading indicator is cleared.
C17_LoadAllOrNothing ==
    [][ (loadPending /\ ~loadPending')
        => /\ ~isLoading'
           /\ \/ /\ event' = "loaded"
                 /\ Range(allMusic') = musicStore
                 /\ Range(playlists') = plStore
                 /\ Len(allMusic') = Cardinality(musicStore)
                 /\ Len(playlists') = Cardinality(plStore)
              \/ /\ event' = "loadFailed"
                 /\ alertMsg' = "loadFailed"
                 /\ allMusic' = <<>>
                 /\ playlists' = <<>> ]_vars

\* C17 witness: loadData has just failed over stores that hold items and playlists;
\* the indicator is cleared, the alert raised and both collections are empty.
C17_LoadFailedOverData ==
    /\ event = "loadFailed"
    /\ alertMsg = "loadFailed"
    /\ ~isLoading
    /\ musicStore # {}
    /\ plStore # {}
    /\ allMusic = <<>>
    /\ playlists = <<>>

\* C18: an add for a playlist of the render that does not list the current file
\* issues one write of the whole record: that playlist with the file's id appended
\* after its ids, which keep their order.  When the write has succeeded the store
\* holds that record under the playlist's id and every other record as before, the
\* playlists array has that record in the playlist's place and every other entry as
\* before, the selection prompt is closed and the success notice raised.  An add
\* with no current file, or for an id that no playlist of the render has, issues no
\* write and changes neither the store, the array nor the prompt.
C18_AddAppendsAndWritesRecord ==
    [][ /\ \A id \in PlaylistIds :
             HandleAddToPlaylist(id)
             => /\ plStore' = plStore
                /\ playlists' = playlists
                /\ isModalOpen' = isModalOpen
                /\ (currentFile = NoFile \/ id \notin IdsOf(Range(playlists)))
                      => plQueue' = plQueue /\ alertMsg' = "none"
                /\ (event' = "addCalled")
                      => LET task == plQueue'[Len(plQueue')]
                             k == CHOOSE i \in 1..Len(playlists) :
                                     /\ playlists[i].id = id
                                     /\ \A j \in 1..(i - 1) : playlists[j].id # id
                         IN  /\ Len(plQueue') = Len(plQueue) + 1
                             /\ ~IncludesItem(playlists[k].itemIds, currentFile.id)
                             /\ task.pid = id
                             /\ task.rec.id = id
                             /\ task.rec.name = playlists[k].name
                             /\ Len(task.rec.itemIds) = Len(playlists[k].itemIds) + 1
                             /\ SubSeq(task.rec.itemIds, 1, Len(playlists[k].itemIds))
                                   = playlists[k].itemIds
                             /\ task.rec.itemIds[Len(task.rec.itemIds)] = currentFile.id
        /\ (SettledOk /\ Head(plQueue).op = "add")
           => LET task == Head(plQueue) IN
              /\ task.rec \in plStore'
              /\ \A p \in plStore \cup plStore' :
                    p.id # task.pid => (p \in plStore /\ p \in plStore')
              /\ \A q \in plStore' : q.id = task.pid => q = task.rec
              /\ Len(playlists') = Len(playlists)
              /\ \A i \in 1..Len(playlists) :
                    playlists'[i] = IF playlists[i].id = task.pid THEN task.rec
                                    ELSE playlists[i]
              /\ ~isModalOpen'
              /\ alertMsg' = "added" ]_vars

\* C18 witness: an add has just succeeded on a playlist that listed one item: it now
\* lists two, in the store and in the array, the other stored playlist is as the
\* earlier session left it, and the prompt is closed.
C18_AddedSecondItem ==
    /\ event = "add"
    /\ alertMsg = "added"
    /\ ~isModalOpen
    /\ \E i \in 1..Len(playlists) :
          /\ playlists[i] \in plStore
          /\ playlists[i] \notin EarlierPlaylists
          /\ Len(playlists[i].itemIds) = 2
          /\ playlists[i].itemIds[2] = currentFile.id
    /\ \E j \in 1..Len(playlists) :
          playlists[j] \in plStore /\ playlists[j] \in EarlierPlaylists


(***************************************************************************)
(* The db module on its own: its six functions are called in any order by  *)
(* a page that has just been loaded, over a database that does not exist   *)
(* yet or that an earlier session left.                                     *)
(***************************************************************************)
DbOps == {"saveSheetMusic", "getAllSheetMusic", "deleteSheetMusic",
          "savePlaylist", "getAllPlaylists", "deletePlaylist"}

\* const db = await getDb(): the call is counted, and the function goes on
\* only when dbPromise is fulfilled
DbCall(openOk) ==
    /\ UNCHANGED viewerVars
    /\ UserEvent
    /\ GetDb(openOk)
    /\ alertMsg' = "none"
    /\ UNCHANGED <<allMusic, playlists, currentFile, view, isModalOpen, isLoading,
                   loadingMessage, newPlaylistName, loadPending, plQueue, imp, rnd,
                   hydrated>>

\* db.saveSheetMusic(sheetMusic)
DbSaveSheetMusic(sheetMusic, openOk, ok) ==
    /\ DbCall(openOk)
    /\ LET done == dbPromise' = "opened" /\ ok IN
       /\ musicStore' = IF done THEN Put(musicStore, sheetMusic) ELSE musicStore
       /\ event' = IF done THEN "saveSheetMusic" ELSE "dbRejected"
    /\ UNCHANGED plStore

\* db.getAllSheetMusic()
DbGetAllSheetMusic(openOk, ok) ==
    /\ DbCall(openOk)
    /\ event' = IF dbPromise' = "opened" /\ ok THEN "getAllSheetMusic" ELSE "dbRejected"
    /\ UNCHANGED <<musicStore, plStore>>

\* db.deleteSheetMusic(id)
DbDeleteSheetMusic(id, openOk, ok) ==
    /\ DbCall(openOk)
    /\ LET done == dbPromise' = "opened" /\ ok IN
       /\ musicStore' = IF done THEN Delete(musicStore, id) ELSE musicStore
       /\ event' = IF done THEN "deleteSheetMusic" ELSE "dbRejected"
    /\ UNCHANGED plStore

\* db.savePlaylist(playlist)
DbSavePlaylist(playlist, openOk, ok) ==
    /\ DbCall(openOk)
    /\ LET done == dbPromise' = "opened" /\ ok IN
       /\ plStore' = IF done THEN Put(plStore, playlist) ELSE plStore
       /\ event' = IF done THEN "savePlaylist" ELSE "dbRejected"
    /\ UNCHANGED musicStore

\* db.getAllPlaylists()
DbGetAllPlaylists(openOk, ok) ==
    /\ DbCall(openOk)
    /\ event' = IF dbPromise' = "opened" /\ ok THEN "getAllPlaylists" ELSE "dbRejected"
    /\ UNCHANGED <<musicStore, plStore>>

\* db.deletePlaylist(id)
DbDeletePlaylist(id, openOk, ok) ==
    /\ DbCall(openOk)
    /\ LET done == dbPromise' = "opened" /\ ok IN
       /\ plStore' = IF done THEN Delete(plStore, id) ELSE plStore
       /\ event' = IF done THEN "deletePlaylist" ELSE "dbRejected"
    /\ UNCHANGED musicStore

\* the page is loaded again: the module is evaluated anew (let dbPromise), the
\* database stays as it is
DbPageLoad ==
    /\ UNCHANGED viewerVars
    /\ dbPromise # "unset"
    /\ dbPromise' = "unset"
    /\ dbOpens' = 0
    /\ alertMsg' = "none"
    /\ event' = "pageLoaded"
    /\ UNCHANGED <<musicStore, plStore, allMusic, playlists, currentFile, view,
                   isModalOpen, isLoading, loadingMessage, newPlaylistName, loadPending,
                   plQueue, imp, rnd, calls, hydrated, dbVersion, dbStores>>

InitDb ==
    /\ \/ dbVersion = 0 /\ dbStores = {} /\ musicStore = {} /\ plStore = {}
       \/ /\ dbVersion = DbVersion
          /\ dbStores = DbStoreNames
          /\ musicStore \in SUBSET Range(EarlierItems)
          /\ plStore \in SUBSET EarlierPlaylists
    /\ dbPromise = "unset"
    /\ dbOpens = 0
    /\ allMusic = <<>>
    /\ playlists = <<>>
    /\ currentFile = NoFile
    /\ view = "playlists"
    /\ isModalOpen = FALSE
    /\ isLoading = FALSE
    /\ loadingMessage = LoadingLibrary
    /\ newPlaylistName = <<>>
    /\ loadPending = FALSE
    /\ plQueue = <<>>
    /\ imp = Idle
    /\ rnd = 0
    /\ calls = 0
    /\ alertMsg = "none"
    /\ event = "moduleLoaded"
    /\ hydrated = <<>>
    /\ ViewerUseState

NextDb ==
    \/ \E m \in Range(EarlierItems), openOk \in BOOLEAN, ok \in BOOLEAN :
          DbSaveSheetMusic(m, openOk, ok)
    \/ \E openOk \in BOOLEAN, ok \in BOOLEAN : DbGetAllSheetMusic(openOk, ok)
    \/ \E id \in IdsOf(Range(EarlierItems)), openOk \in BOOLEAN, ok \in BOOLEAN :
          DbDeleteSheetMusic(id, openOk, ok)
    \/ \E p \in EarlierPlaylists, openOk \in BOOLEAN, ok \in BOOLEAN :
          DbSavePlaylist(p, openOk, ok)
    \/ \E openOk \in BOOLEAN, ok \in BOOLEAN : DbGetAllPlaylists(openOk, ok)
    \/ \E id \in IdsOf(EarlierPlaylists), openOk \in BOOLEAN, ok \in BOOLEAN :
          DbDeletePlaylist(id, openOk, ok)
    \/ DbPageLoad

SpecDb == InitDb /\ [][NextDb]_vars

\* the records of `before' whose key is not `key' are the records of `after'
\* whose key is not `key'
SameButKey(before, after, key) ==
    {x \in before : x.id # key} = {x \in after : x.id # key}

\* C19: the database is opened by the first call of a db function after the page
\* is loaded and by no later call, which finds dbPromise, the version and the
\* object stores as they were; opening creates the stores the database lacks and
\* removes none; and no call changes a record other than the one it saves or
\* deletes, so that opening again after a reload resets nothing.
C19_OpenedOnceNothingReset ==
    [][ /\ (dbPromise = "unset") = (dbOpens = 0)
        /\ calls' = calls + 1 /\ dbPromise = "unset"
              => dbOpens' = 1 /\ dbPromise' # "unset"
        /\ calls' = calls + 1 /\ dbPromise # "unset" => UNCHANGED dbVars
        /\ dbStores \subseteq dbStores'
        /\ dbStores' # dbStores => dbStores = {} /\ dbStores' = DbStoreNames
        /\ event' \in {"getAllSheetMusic", "getAllPlaylists", "dbRejected", "pageLoaded"}
              => musicStore' = musicStore /\ plStore' = plStore
        /\ event' \in {"saveSheetMusic", "deleteSheetMusic"}
              => /\ plStore' = plStore
                 /\ \E id \in IdsOf(Range(EarlierItems)) :
                       SameButKey(musicStore, musicStore', id)
        /\ event' \in {"savePlaylist", "deletePlaylist"}
              => /\ musicStore' = musicStore
                 /\ \E id \in IdsOf(EarlierPlaylists) :
                       SameButKey(plStore, plStore', id)
      ]_vars

\* the database an earlier session left has been opened again and has served
\* two calls, and the records of both stores are there
C19_OpenedAgainOverRecords ==
    /\ event = "getAllPlaylists"
    /\ calls = 2
    /\ dbOpens = 1
    /\ musicStore # {}
    /\ plStore # {}

\* the images of pages 1..n of a document, in order
RenderedPages(doc, n) == [k \in 1..n |-> PageImage(doc, k)]

\* C20: while a document of n pages is imported, the overlay is set to page i only
\* when pages 1..i-1 and no more are rendered, page 1 after 'Loading PDF...' and page
\* i > 1 after page i-1; page i is rendered only while the overlay shows page i; and
\* the store is written only when the overlay shows page n and all n pages are
\* rendered, the written record holding the n pages in order.
C20_ProgressPerPageThenSave ==
    [][ /\ loadingMessage' # loadingMessage /\ loadingMessage'[1] = "page"
              => LET i == loadingMessage'[2] IN
                 /\ imp'.phase = "page"
                 /\ i \in 1..imp'.numPages
                 /\ loadingMessage'[3] = imp'.numPages
                 /\ imp'.pages = RenderedPages(imp'.doc, i - 1)
                 /\ loadingMessage = IF i = 1 THEN LoadingPdf
                                     ELSE RenderingPage(i - 1, imp'.numPages)
        /\ imp.phase = "page" /\ imp'.pages # imp.pages /\ imp' # Idle
              => /\ loadingMessage = RenderingPage(Len(imp'.pages), imp.numPages)
                 /\ imp'.pages = RenderedPages(imp.doc, Len(imp.pages) + 1)
        /\ imp.phase \in {"read", "open", "page"} => musicStore' = musicStore
        /\ event' = "saveCalled" \/ musicStore' # musicStore
              => /\ loadingMessage' = RenderingPage(imp.numPages, imp.numPages)
                 /\ imp.phase \in {"page", "save"}
                 /\ LET rec == IF imp.phase = "save" THEN imp.rec ELSE imp'.rec IN
                    /\ rec.pages = RenderedPages(imp.doc, imp.numPages)
                    /\ musicStore' \in {musicStore, Put(musicStore, rec)}
      ]_vars

\* a document of two pages has been imported
C20_TwoPagesImported ==
    /\ event = "imported"
    /\ Len(currentFile.pages) = 2
    /\ loadingMessage = RenderingPage(2, 2)

(***************************************************************************)
(* App when every request to the stores succeeds: the reads of loadData,   *)
(* the writes of the playlist handlers and the write of the import.  The    *)
(* reading and the rendering of a PDF may still fail.                       *)
(***************************************************************************)
NextWritesOk ==
    \/ LoadData /\ event' = "loaded"
    \/ Reload
    \/ \E text \in NameInputs : SetNewPlaylistName(text)
    \/ \E now \in Clock : HandleCreatePlaylist(now)
    \/ \E id \in PlaylistIds, confirmed \in BOOLEAN : HandleDeletePlaylist(id, confirmed)
    \/ \E id \in PlaylistIds : HandleAddToPlaylist(id)
    \/ \E id \in PlaylistIds, fileId \in RemovableIds : HandleRemoveFromPlaylist(id, fileId)
    \/ SettlePlaylistWrite(TRUE)
    \/ \E file \in ShownItems : HandleSelectFileFromPlaylist(file)
    \/ HandleCloseViewer
    \/ \E open \in BOOLEAN : SetIsModalOpen(open)
    \/ \E picked \in BOOLEAN, file \in Files : HandleFileSelect(picked, file)
    \/ \E ok \in BOOLEAN : ImportRead(ok)
    \/ \E ok \in BOOLEAN, hasContext \in BOOLEAN : ImportOpen(ok, hasContext)
    \/ \E ok \in BOOLEAN, now \in Clock : ImportPage(ok, now)
    \/ ImportSave(TRUE)

SpecWritesOk == Init /\ [][NextWritesOk]_vars

\* C21: when every store request has succeeded and none is in flight (the load is
\* done, no playlist write is pending, no import is running), the playlists array
\* holds the records of the 'playlists' store and no others, equal in id, name and
\* itemIds.
C21_CacheEqualsStoreAtRest ==
    (~loadPending /\ plQueue = <<>> /\ imp = Idle) => Range(playlists) = plStore

\* C22: a playlist that a confirmed delete has removed from the 'playlists' store
\* stays out of it: when the write of an add or remove call settles for a playlist
\* id that the store no longer has (the call was made from a render that still
\* showed the playlist), the store has no record of that id afterwards either.
C22_DeletedStaysDeleted ==
    [][ ( /\ SettledOk
          /\ Head(plQueue).op \in {"add", "remove"}
          /\ Head(plQueue).pid \notin IdsOf(plStore) )
        => Head(plQueue).pid \notin IdsOf(plStore') ]_vars

(***************************************************************************)
(* App when the file read, getDocument, the rendering of a page and the    *)
(* write of the item each settle: every awaited step of a running import   *)
(* is eventually resumed.                                                   *)
(***************************************************************************)
SpecImportSettles ==
    /\ Spec
    /\ WF_vars(\E ok \in BOOLEAN : ImportRead(ok))
    /\ WF_vars(\E ok \in BOOLEAN, hasContext \in BOOLEAN : ImportOpen(ok, hasContext))
    /\ WF_vars(\E ok \in BOOLEAN, now \in Clock : ImportPage(ok, now))
    /\ WF_vars(\E ok \in BOOLEAN : ImportSave(ok))

\* C23: an import that has set the loading overlay leads to a state in which the
\* import is over and isLoading is false, whether it ends with the item saved or
\* with a failure of the read, of getDocument, of a page or of the write.
C23_ImportClearsLoading ==
    (imp.phase # "idle" /\ isLoading) ~> (imp.phase = "idle" /\ ~isLoading)

\* an import has failed before its first page and the overlay is gone
C23_FailedEarlyNotLoading ==
    /\ event = "importFailed"
    /\ loadingMessage = LoadingPdf
    /\ imp = Idle
    /\ ~isLoading

\* neither the type contains "pdf" nor the name ends in ".pdf", in whatever case
NotAPdf(file) ==
    /\ ~Includes(ToLowerCase(file.type), PdfType)
    /\ ~EndsWith(ToLowerCase(file.name), DotPdf)

\* C24: a change event of the file input that carries no file, or a file that is not
\* a PDF, starts no import and does not set the loading overlay, and leaves the two
\* stores, allMusic, playlists, the view and the open item as they were.
C24_NonPdfChangesNothing ==
    [][ (\E picked \in BOOLEAN, file \in Files :
            /\ HandleFileSelect(picked, file)
            /\ ~picked \/ NotAPdf(file))
        => /\ imp' = Idle
           /\ ~isLoading'
           /\ UNCHANGED <<isLoading, loadingMessage, imp, musicStore, plStore,
                          allMusic, playlists, view, currentFile, plQueue>> ]_vars

\* a file that is not a PDF was selected while the library holds items
C24_NonPdfSelected ==
    /\ event = "notPdf"
    /\ alertMsg = "invalidPdf"
    /\ allMusic # <<>>
    /\ ~isLoading

(***************************************************************************)
(* The Viewer component on its own, mounted with an item.  The scale is     *)
(* counted in quarters: every number the code adds to it or sets it to      *)
(* (0.25, 0.5, 1, 2, 2.5, 3) is a whole number of quarters, and sums of     *)
(* quarters are exact in floating point.                                    *)
(***************************************************************************)
\* Math.max(0.5, ...) and Math.min(3, ...) of zoom, in quarters
MinScale == 2

MaxScale == 12

\* Math.max(1, ...) and Math.min(10, ...) of changeSpeed
MinSpeed == 1

MaxSpeed == 10

\* the scale a double click and a double tap zoom in to (2 and 2.5), and the scale
\* they go back to (1), in quarters
DoubleClickScale == 8

DoubleTapScale == 10

UnitScale == 4

\* tapLength < 300
DoubleTapMs == 300

\* the deltas of the buttons: zoom(-0.25), zoom(0.25), changeSpeed(-1), changeSpeed(1)
ZoomDeltas == {-1, 1}

SpeedDeltas == {-1, 1}

\* values of new Date().getTime() at a touch end
TapTimes == {1000, 1001, 1299, 1300, 1301, 1000 + 2 * DoubleTapMs}

Min(a, b) == IF a < b THEN a ELSE b

Max(a, b) == IF a > b THEN a ELSE b

\* faulty variant of Clamp: the upper bound is not applied
ClampBelowOnly(lo, hi, x) == Max(lo, x)

\* Math.max(lo, Math.min(hi, x))
Clamp(lo, hi, x) == Max(lo, Min(hi, x))

\* what is left alone by every handler of the Viewer
AppUnchanged ==
    UNCHANGED <<musicStore, plStore, allMusic, playlists, currentFile, view,
                isModalOpen, isLoading, loadingMessage, newPlaylistName, loadPending,
                plQueue, imp, rnd, calls, alertMsg, hydrated, dbPromise, dbOpens,
                dbVersion, dbStores>>

\* handleDoubleClick
HandleDoubleClick ==
    /\ scale' = IF scale > UnitScale THEN UnitScale ELSE DoubleClickScale
    /\ event' = "doubleClick"
    /\ UNCHANGED <<isAutoScrolling, scrollSpeed, lastTap>>
    /\ AppUnchanged

\* handleTouchEnd at time currentTime
HandleTouchEnd(currentTime) ==
    /\ LET tapLength == currentTime - lastTap IN
       IF tapLength < DoubleTapMs /\ tapLength > 0
       THEN /\ scale' = IF scale > UnitScale THEN UnitScale ELSE DoubleTapScale
            /\ event' = "doubleTap"
       ELSE /\ UNCHANGED scale
            /\ event' = "tap"
    /\ lastTap' = currentTime
    /\ UNCHANGED <<isAutoScrolling, scrollSpeed>>
    /\ AppUnchanged

\* changeSpeed(delta)
ChangeSpeed(delta) ==
    /\ scrollSpeed' = Clamp(MinSpeed, MaxSpeed, scrollSpeed + delta)
    /\ event' = "changeSpeed"
    /\ UNCHANGED <<scale, isAutoScrolling, lastTap>>
    /\ AppUnchanged

\* zoom(delta), delta in quarters
Zoom(delta) ==
    /\ scale' = Clamp(MinScale, MaxScale, scale + delta)
    /\ event' = "zoom"
    /\ UNCHANGED <<isAutoScrolling, scrollSpeed, lastTap>>
    /\ AppUnchanged

\* the play/pause button, and the end of the document reached while scrolling
SetIsAutoScrolling(on) ==
    /\ on = ~isAutoScrolling
    /\ isAutoScrolling' = on
    /\ event' = "autoScroll"
    /\ UNCHANGED <<scale, scrollSpeed, lastTap>>
    /\ AppUnchanged

InitViewer ==
    /\ musicStore = Range(EarlierItems)
    /\ plStore = EarlierPlaylists
    /\ allMusic = GetAllSheetMusic(musicStore)
    /\ playlists = GetAllPlaylists(plStore)
    /\ currentFile \in Range(EarlierItems)
    /\ view = "viewer"
    /\ isModalOpen = FALSE
    /\ isLoading = FALSE
    /\ loadingMessage = LoadingLibrary
    /\ newPlaylistName = <<>>
    /\ loadPending = FALSE
    /\ plQueue = <<>>
    /\ imp = Idle
    /\ rnd = Len(EarlierItems)
    /\ calls = 0
    /\ alertMsg = "none"
    /\ event = "viewerMounted"
    /\ hydrated = <<>>
    /\ DbIsOpen
    /\ ViewerUseState

NextViewer ==
    \/ HandleDoubleClick
    \/ \E currentTime \in TapTimes : HandleTouchEnd(currentTime)
    \/ \E delta \in SpeedDeltas : ChangeSpeed(delta)
    \/ \E delta \in ZoomDeltas : Zoom(delta)
    \/ \E on \in BOOLEAN : SetIsAutoScrolling(on)

SpecViewer == InitViewer /\ [][NextViewer]_vars

\* C25: in the Viewer the auto-scroll speed is always a whole number from 1 to 10
\* and the scale a whole number of quarters from 0.5 to 3; a speed step or a zoom
\* step beyond a bound leaves the value at the bound, any other step changes it by
\* exactly one step.
C25_SpeedAndScaleWithinBounds ==
    /\ [](scrollSpeed \in 1..10 /\ scale \in 2..12)
    /\ [][ /\ event' = "changeSpeed"
              => \/ scrollSpeed' \in {scrollSpeed - 1, scrollSpeed + 1}
                 \/ scrollSpeed' = scrollSpeed /\ scrollSpeed \in {1, 10}
           /\ event' = "zoom"
              => \/ scale' \in {scale - 1, scale + 1}
                 \/ scale' = scale /\ scale \in {2, 12}
           /\ event' \in {"doubleClick", "doubleTap"} => scale' \in {4, 8, 10}
         ]_vars

\* the screen has been tapped, speed and scale have been brought to their upper
\* bounds, and the last step was a zoom step
C25_SteppedAtUpperBounds ==
    /\ scale = MaxScale
    /\ scrollSpeed = MaxSpeed
    /\ lastTap # 0
    /\ event = "zoom"
====
